---- MODULE Spec2Model ----
(***************************************************************************)
(* Model of the HTTP bridge pair of emergent-primitives:                   *)
(*   - the Outbound Dispatcher, primitives/http-sink/src/main.rs           *)
(*   - the Webhook Receiver,    primitives/http-source/src/main.rs         *)
(* Each process has its own specification (DispatcherSpec, ReceiverSpec);  *)
(* the two only share the module. Their pure functions (the Request        *)
(* Translator, the Signature Verifier) are also applied on their own, to   *)
(* wider sets of inputs, in TranslatorSpec and VerifierSpec.               *)
(*                                                                         *)
(* Strings that the code takes apart (URLs, methods, signatures) are       *)
(* sequences of one-character strings; JSON values are tagged records.     *)
(***************************************************************************)
EXTENDS Integers, Sequences, FiniteSets, TLC

VARIABLES
    \* ---- Dispatcher (http-sink) ----
    args,             \* Args: [base_url, retries, auth_header], immutable
    overflow_checks,  \* build profile: TRUE = arithmetic overflow panics
    pc,               \* where main is: select / sending / sleeping / done / panicked
    sigterm,          \* a SIGTERM has been delivered and not yet received
    signalled_in,     \* history: where main was when SIGTERM was delivered
    pulled,           \* how many Events stream.next() has yielded
    call,             \* the make_request call in progress (its arguments and locals)
    trace,            \* history of the current and the previous Event: pulls,
                      \* requests, responses, sleeps, eprintln! lines, returns,
                      \* and the way main left its loop
    \* ---- Receiver (http-source) ----
    secret,           \* AppState.secret: Option<String>, immutable
    route,            \* Args.path, the path handle_request is routed on, immutable
    main_pc,          \* where main is: serving / disconnecting / returned
    rsig,             \* a SIGTERM has been delivered and not yet received
    conn,             \* per inbound request: its handler's position and data
    bus,              \* history: publish calls, in order
    \* ---- a pure function applied on its own ----
    input,            \* its arguments
    output            \* its result, once it has been applied

vars == << args, overflow_checks, pc, sigterm, signalled_in, pulled, call, trace,
           secret, route, main_pc, rsig, conn, bus, input, output >>

sinkVars == << args, overflow_checks, pc, sigterm, signalled_in, pulled, call, trace >>
sourceVars == << secret, route, main_pc, rsig, conn, bus >>
pureVars == << input, output >>

----------------------------------------------------------------------------
(* Bounds of the model *)

\* Events the subscription stream yields before the model stops pulling.
MaxEvents == 2
\* The small retry counts explored (besides u32::MAX).
MaxRetries == 2
\* Inbound requests the Receiver sees.
MaxRequests == 2
\* The most trailing '/' a configured base_url ends with.
MaxSlashes == 2
\* The longest request body handed to the Signature Verifier on its own.
MaxBodyLen == 2

----------------------------------------------------------------------------
(* Option<T>, strings, JSON values *)

None == << >>
Some(x) == << x >>
IsSome(o) == Len(o) = 1
Unwrap(o) == o[1]

\* serde_json::Value
Null == [t |-> "null"]
Str(s) == [t |-> "string", s |-> s]
Num(n) == [t |-> "number", n |-> n]
Obj(kvs) == [t |-> "object", o |-> kvs]     \* kvs: <<key, value>> pairs in map order

\* Value::is_null
is_null(v) == v.t = "null"

\* Value::as_str
as_str(v) == IF v.t = "string" THEN Some(v.s) ELSE None

\* Value::as_object
as_object(v) == IF v.t = "object" THEN Some(v.o) ELSE None

\* Value::get(key): Some(value) for an object that has the key, None otherwise
get(v, key) ==
    IF v.t = "object" /\ \E i \in 1..Len(v.o) : v.o[i][1] = key
    THEN Some(v.o[CHOOSE i \in 1..Len(v.o) : v.o[i][1] = key][2])
    ELSE None

\* Option::and_then(|u| u.as_str())
and_then_as_str(o) == IF IsSome(o) THEN as_str(Unwrap(o)) ELSE None

\* str::trim_end_matches(c): every trailing c removed
RECURSIVE trim_end_matches(_, _)
trim_end_matches(s, c) ==
    IF Len(s) > 0 /\ s[Len(s)] = c
    THEN trim_end_matches(SubSeq(s, 1, Len(s) - 1), c)
    ELSE s

\* char::to_uppercase over the letters the model uses
UpperChar(c) ==
    CASE c = "g" -> "G" [] c = "e" -> "E" [] c = "t" -> "T"
      [] c = "p" -> "P" [] c = "o" -> "O" [] c = "s" -> "S"
      [] c = "u" -> "U" [] c = "d" -> "D" [] c = "l" -> "L"
      [] c = "a" -> "A" [] c = "c" -> "C" [] c = "h" -> "H"
      [] OTHER -> c

\* str::to_uppercase
to_uppercase(s) == [i \in 1..Len(s) |-> UpperChar(s[i])]

----------------------------------------------------------------------------
(* u32 arithmetic. A u32 is kept as two 16-bit limbs <<hi, lo>>, so that   *)
(* u32::MAX and the overflow of retries + 1 are represented exactly.       *)

Limb == 65536
U32(n) == << n \div Limb, n % Limb >>
U32_MAX == << Limb - 1, Limb - 1 >>
U32Lt(a, b) == a[1] < b[1] \/ (a[1] = b[1] /\ a[2] < b[2])
\* the value as a number; used only for values below 2^31
U32Val(a) == a[1] * Limb + a[2]
\* a + 1 in u32: [overflow, value], value being the wrapped result
U32Add1(a) ==
    IF a = U32_MAX THEN [overflow |-> TRUE, value |-> << 0, 0 >>]
    ELSE IF a[2] = Limb - 1 THEN [overflow |-> FALSE, value |-> << a[1] + 1, 0 >>]
    ELSE [overflow |-> FALSE, value |-> << a[1], a[2] + 1 >>]

----------------------------------------------------------------------------
(* The Outbound Dispatcher: configuration and inputs *)

\* Args.base_url and Args.auth_header: both unset, or both set
TargetArgs ==
    { [base_url |-> None, auth_header |-> None],
      [base_url |-> Some(<< "x", "/", "/" >>), auth_header |-> Some(<< "k" >>)] }
\* Args.retries: a u32
RetriesValues == { U32(n) : n \in 0..MaxRetries } \cup { U32_MAX }
\* Args
ArgsValues ==
    { [base_url |-> t.base_url, retries |-> r, auth_header |-> t.auth_header] :
        t \in TargetArgs, r \in RetriesValues }

\* Event payloads the subscription stream may yield: one with a target, one
\* with neither `url` nor `path`
Payloads ==
    { Obj(<< << "method", Str(<< "g", "e", "t" >>) >>,
             << "path", Str(<< "/", "f" >>) >> >>),
      Obj(<< << "body", Num(1) >> >>) }

\* What request.send().await can come back with: Ok(response) or Err(e)
Statuses == { 200, 503 }
SendResults == { [ok |-> TRUE, status |-> st] : st \in Statuses }
                   \cup { [ok |-> FALSE] }

\* StatusCode::is_success
is_success(status) == 200 <= status /\ status < 300

----------------------------------------------------------------------------
(* The Outbound Dispatcher: pure parts *)

\* extract_url with a default target where the code returns None
extract_url_defaulting(payload, base_url) ==
    LET url == and_then_as_str(get(payload, "url"))
        path == and_then_as_str(get(payload, "path"))
        base == IF IsSome(base_url) THEN trim_end_matches(Unwrap(base_url), "/") ELSE << >>
    IN  IF IsSome(url) THEN Some(Unwrap(url))
        ELSE IF IsSome(path) THEN Some(base \o Unwrap(path))
        ELSE Some(base)

\* extract_url with the base taken as configured, trailing '/' and all
extract_url_no_trim(payload, base_url) ==
    LET url == and_then_as_str(get(payload, "url"))
        path == and_then_as_str(get(payload, "path"))
    IN  IF IsSome(url) THEN Some(Unwrap(url))
        ELSE IF IsSome(path)
             THEN IF IsSome(base_url)
                  THEN Some(Unwrap(base_url) \o Unwrap(path))
                  ELSE Some(Unwrap(path))
             ELSE None

\* fn extract_url(payload, base_url) -> Option<String>
extract_url(payload, base_url) ==
    LET url == and_then_as_str(get(payload, "url"))
        path == and_then_as_str(get(payload, "path"))
    IN  IF IsSome(url) THEN Some(Unwrap(url))
        ELSE IF IsSome(path)
             THEN IF IsSome(base_url)
                  THEN Some(trim_end_matches(Unwrap(base_url), "/") \o Unwrap(path))
                  ELSE Some(Unwrap(path))
             ELSE None

\* main: method = payload.get("method").and_then(as_str).unwrap_or("POST")
extract_method(payload) ==
    LET m == and_then_as_str(get(payload, "method"))
    IN  IF IsSome(m) THEN Unwrap(m) ELSE << "P", "O", "S", "T" >>

\* main: headers = payload.get("headers").unwrap_or(&Value::Null)
extract_headers(payload) ==
    LET h == get(payload, "headers") IN IF IsSome(h) THEN Unwrap(h) ELSE Null

\* the body defaulting to null, as the headers do
extract_body_default_null(payload) ==
    LET b == get(payload, "body") IN IF IsSome(b) THEN Unwrap(b) ELSE Null

\* main: body = payload.get("body").unwrap_or(payload)
extract_body(payload) ==
    LET b == get(payload, "body") IN IF IsSome(b) THEN Unwrap(b) ELSE payload

\* the match made on the method as given, without to_uppercase
request_method_case_sensitive(method) ==
    CASE method = << "G", "E", "T" >> -> "GET"
      [] method = << "P", "O", "S", "T" >> -> "POST"
      [] method = << "P", "U", "T" >> -> "PUT"
      [] method = << "D", "E", "L", "E", "T", "E" >> -> "DELETE"
      [] method = << "P", "A", "T", "C", "H" >> -> "PATCH"
      [] OTHER -> "POST"

\* make_request: match method.to_uppercase().as_str() { ... }
request_method(method) ==
    LET up == to_uppercase(method)
    IN  CASE up = << "G", "E", "T" >> -> "GET"
          [] up = << "P", "O", "S", "T" >> -> "POST"
          [] up = << "P", "U", "T" >> -> "PUT"
          [] up = << "D", "E", "L", "E", "T", "E" >> -> "DELETE"
          [] up = << "P", "A", "T", "C", "H" >> -> "PATCH"
          [] OTHER -> "POST"

\* make_request: the payload headers whose value is a string, in map order
RECURSIVE string_headers(_)
string_headers(kvs) ==
    IF kvs = << >> THEN << >>
    ELSE LET v == as_str(Head(kvs)[2])
         IN  (IF IsSome(v) THEN << << Head(kvs)[1], Unwrap(v) >> >> ELSE << >>)
             \o string_headers(Tail(kvs))

\* the request with the payload headers added before the configured one
build_request_payload_headers_first(url, method, headers, body, a) ==
    [ method  |-> request_method(method),
      url     |-> url,
      headers |-> (IF IsSome(as_object(headers))
                   THEN string_headers(Unwrap(as_object(headers)))
                   ELSE << >>)
                  \o (IF IsSome(a.auth_header)
                      THEN << << "Authorization", Unwrap(a.auth_header) >> >>
                      ELSE << >>),
      json    |-> IF ~is_null(body) THEN Some(body) ELSE None ]

\* make_request: the request built on each iteration of the loop
build_request(url, method, headers, body, a) ==
    [ method  |-> request_method(method),
      url     |-> url,
      headers |-> (IF IsSome(a.auth_header)
                   THEN << << "Authorization", Unwrap(a.auth_header) >> >>
                   ELSE << >>)
                  \o (IF IsSome(as_object(headers))
                      THEN string_headers(Unwrap(as_object(headers)))
                      ELSE << >>),
      json    |-> IF ~is_null(body) THEN Some(body) ELSE None ]

\* make_request: max_attempts = args.retries + 1, in u32
max_attempts_of(retries) == U32Add1(retries)

\* make_request: while attempts < max_attempts
loop_condition(attempts, max_attempts) == U32Lt(attempts, max_attempts)

\* after_send with the retry test made before the status test
after_send_retry_first(result, attempts, max_attempts) ==
    IF U32Lt(attempts, max_attempts) THEN "retry"
    ELSE IF result.ok /\ is_success(result.status) THEN "ok"
    ELSE "err"

\* make_request: what follows request.send().await, attempts already counted:
\* "ok" = return Ok(()), "retry" = log and sleep, "err" = return Err
after_send(result, attempts, max_attempts) ==
    IF result.ok /\ is_success(result.status) THEN "ok"
    ELSE IF U32Lt(attempts, max_attempts) THEN "retry"
    ELSE "err"

\* the backoff computed from the attempts made before this one
backoff_ms_before_increment(attempts) == 100 * (U32Val(attempts) - 1)

\* make_request: Duration::from_millis(100 * u64::from(attempts))
backoff_ms(attempts) == 100 * U32Val(attempts)

----------------------------------------------------------------------------
(* The Outbound Dispatcher: main and make_request as a state machine *)

NoCall == [active |-> FALSE]

\* an eprintln! of main or make_request while Event ev is handled
Eprintln(ev, text) == [kind |-> "eprintln", ev |-> ev, text |-> text]

\* main: eprintln!("Failed to make request to {url}: {e}")
FailedLine(ev, url, e) ==
    Eprintln(ev, [line |-> "Failed to make request to", url |-> url, error |-> e])

\* the history kept when Event ev is pulled: what happened for Event ev - 1,
\* and how Event ev - 2 ended
Recent(h, ev) ==
    SelectSeq(h, LAMBDA e : \/ e.ev >= ev - 1
                            \/ e.ev = ev - 2 /\ e.kind \in { "return", "skip" })

\* make_request: one pass of `while attempts < max_attempts` up to its
\* suspension point. Either a request is built and sent (request.send().await),
\* or the loop is left, the trailing Err("Max retries exceeded") goes back to
\* main, which logs it and returns to select!
LoopIteration(c, h) ==
    IF loop_condition(c.attempts, c.max_attempts)
    THEN LET n == U32Add1(c.attempts).value
         IN  /\ call' = [c EXCEPT !.attempts = n]
             /\ trace' = h \o
                    << [kind |-> "request", ev |-> c.ev, attempt |-> U32Val(n),
                        req |-> build_request(c.url, c.method, c.headers, c.body, args)] >>
             /\ pc' = "sending"
    ELSE /\ call' = NoCall
         /\ trace' = h \o
                << [kind |-> "return", ev |-> c.ev, result |-> "Err"],
                   FailedLine(c.ev, c.url, "Max retries exceeded") >>
         /\ pc' = "select"

\* the signal raced against the whole dispatch, not only against the pull
sigterm_branch_ready_anywhere == pc \in { "select", "sending", "sleeping" } /\ sigterm

\* the pull raced against the backoff sleep as well
stream_branch_ready_in_sleep == pc \in { "select", "sleeping" }

\* the signal branch without its `break`
after_disconnect_no_break == "select"

\* select!: the branch `_ = sigterm.recv()` can be taken
sigterm_branch_ready == pc = "select" /\ sigterm

\* select!: the branch `msg = stream.next()` can be polled
stream_branch_ready == pc = "select"

\* where main goes after sink.disconnect().await: `break`
after_disconnect == "done"

\* where main goes after logging the missing target: `continue`
after_missing_target == "select"

\* select! branch: _ = sigterm.recv() => { let _ = sink.disconnect().await; break; }
\* disconnect() returns Ok (ok) or Err; `let _ =` drops either
SelectSigterm(ok) ==
    /\ sigterm_branch_ready
    /\ sigterm' = FALSE
    /\ trace' = Append(trace, [kind |-> "disconnect", ev |-> pulled, ok |-> ok])
    /\ pc' = after_disconnect
    /\ UNCHANGED << args, overflow_checks, signalled_in, pulled, call >>
    /\ UNCHANGED sourceVars
    /\ UNCHANGED pureVars

\* select! branch: msg = stream.next(), Some(msg): the whole handler up to the
\* first suspension point inside make_request
SelectMessage(payload) ==
    /\ stream_branch_ready
    /\ pulled < MaxEvents
    /\ pulled' = pulled + 1
    /\ LET ev == pulled + 1
           h == Append(Recent(trace, ev), [kind |-> "pull", ev |-> ev, payload |-> payload])
           url == extract_url(payload, args.base_url)
           max == max_attempts_of(args.retries)
       IN  IF ~IsSome(url)
           THEN \* eprintln!(..); continue
                /\ trace' = h \o
                     << Eprintln(ev, [line |-> "Message missing 'url' or 'path' field in payload"]),
                        [kind |-> "skip", ev |-> ev] >>
                /\ pc' = after_missing_target
                /\ call' = NoCall
           ELSE IF max.overflow /\ overflow_checks
           THEN \* args.retries + 1 panics: attempt to add with overflow
                /\ trace' = Append(h, [kind |-> "panic", ev |-> ev])
                /\ pc' = "panicked"
                /\ call' = call
           ELSE LoopIteration([active |-> TRUE, ev |-> ev, url |-> Unwrap(url),
                               method |-> extract_method(payload),
                               headers |-> extract_headers(payload),
                               body |-> extract_body(payload),
                               attempts |-> U32(0), max_attempts |-> max.value],
                              h)
    /\ UNCHANGED << args, overflow_checks, sigterm, signalled_in >>
    /\ UNCHANGED sourceVars
    /\ UNCHANGED pureVars

\* select! branch: msg = stream.next(), None: break (the stream has ended)
SelectStreamEnd ==
    /\ stream_branch_ready
    /\ pc' = "done"
    /\ trace' = Append(trace, [kind |-> "stream_end", ev |-> pulled])
    /\ UNCHANGED << args, overflow_checks, sigterm, signalled_in, pulled, call >>
    /\ UNCHANGED sourceVars
    /\ UNCHANGED pureVars

\* make_request: request.send().await completes with `result`
SendCompletes(result) ==
    /\ pc = "sending"
    /\ LET what == after_send(result, call.attempts, call.max_attempts)
           shown == IF result.ok THEN [status |-> result.status]
                                 ELSE [error |-> "transport"]
           response == [kind |-> "response", ev |-> call.ev,
                        attempt |-> U32Val(call.attempts), result |-> result]
       IN  CASE what = "ok" ->
                 /\ trace' = trace \o
                      << response, [kind |-> "return", ev |-> call.ev, result |-> "Ok"] >>
                 /\ pc' = "select"
                 /\ call' = NoCall
             [] what = "retry" ->
                 /\ trace' = trace \o
                      << response,
                         Eprintln(call.ev, [line |-> "retrying", cause |-> shown,
                                            attempts |-> U32Val(call.attempts),
                                            max_attempts |-> U32Val(call.max_attempts)]),
                         [kind |-> "sleep", ev |-> call.ev,
                          attempt |-> U32Val(call.attempts),
                          ms |-> backoff_ms(call.attempts)] >>
                 /\ pc' = "sleeping"
                 /\ call' = call
             [] OTHER ->
                 /\ trace' = trace \o
                      << response, [kind |-> "return", ev |-> call.ev, result |-> "Err"],
                         FailedLine(call.ev, call.url, shown) >>
                 /\ pc' = "select"
                 /\ call' = NoCall
    /\ UNCHANGED << args, overflow_checks, sigterm, signalled_in, pulled >>
    /\ UNCHANGED sourceVars
    /\ UNCHANGED pureVars

\* make_request: tokio::time::sleep(..).await completes; the loop goes round
SleepCompletes ==
    /\ pc = "sleeping"
    /\ LoopIteration(call, trace)
    /\ UNCHANGED << args, overflow_checks, sigterm, signalled_in, pulled >>
    /\ UNCHANGED sourceVars
    /\ UNCHANGED pureVars

\* the environment delivers SIGTERM to the process; the handle set up by
\* signal(SignalKind::terminate()) keeps it until sigterm.recv() is polled
DeliverSigterm ==
    /\ pc \notin { "done", "panicked" }
    /\ ~sigterm
    /\ sigterm' = TRUE
    /\ signalled_in' = pc
    /\ UNCHANGED << args, overflow_checks, pc, pulled, call, trace >>
    /\ UNCHANGED sourceVars
    /\ UNCHANGED pureVars

\* no pure function is being applied on its own
NoInput == [fn |-> "none"]
NoOutput == [done |-> FALSE]
PureIdle ==
    /\ input = NoInput
    /\ output = NoOutput

\* the Receiver's variables, at rest while the Dispatcher is the process modelled
SourceIdle ==
    /\ secret = None
    /\ route = "/"
    /\ main_pc = "serving"
    /\ rsig = FALSE
    /\ conn = << >>
    /\ bus = << >>

DispatcherInit ==
    /\ args \in ArgsValues
    \* the two build profiles differ only where retries + 1 overflows
    /\ overflow_checks \in (IF args.retries = U32_MAX THEN BOOLEAN ELSE { FALSE })
    /\ pc = "select"
    /\ sigterm = FALSE
    /\ signalled_in = "never"
    /\ pulled = 0
    /\ call = NoCall
    /\ trace = << >>
    /\ SourceIdle
    /\ PureIdle

DispatcherNext ==
    \/ \E ok \in BOOLEAN : SelectSigterm(ok)
    \/ \E payload \in Payloads : SelectMessage(payload)
    \/ SelectStreamEnd
    \/ \E result \in SendResults : SendCompletes(result)
    \/ SleepCompletes
    \/ DeliverSigterm

DispatcherSpec == DispatcherInit /\ [][DispatcherNext]_vars

\* What the runtime and the targets are taken to guarantee: a request that was
\* sent completes, with a response or with an error (the client has a
\* timeout); a backoff timer fires; and select!, which starts polling at a
\* branch chosen at random, does not pass over the signal branch for ever
\* when it is ready again and again. Nothing makes the stream yield.
DispatcherFairness ==
    /\ WF_vars(\E result \in SendResults : SendCompletes(result))
    /\ WF_vars(SleepCompletes)
    /\ SF_vars(\E ok \in BOOLEAN : SelectSigterm(ok))

DispatcherFairSpec == DispatcherSpec /\ DispatcherFairness

----------------------------------------------------------------------------
(* The Webhook Receiver: signature verification *)

Sha256Prefix == << "s", "h", "a", "2", "5", "6", "=" >>

\* str::trim_start_matches(prefix): every leading repetition of prefix removed
RECURSIVE trim_start_matches(_, _)
trim_start_matches(s, prefix) ==
    IF Len(prefix) > 0 /\ Len(s) >= Len(prefix) /\ SubSeq(s, 1, Len(prefix)) = prefix
    THEN trim_start_matches(SubSeq(s, Len(prefix) + 1, Len(s)), prefix)
    ELSE s

HexDigits == << "0", "1", "2", "3", "4", "5", "6", "7",
                "8", "9", "a", "b", "c", "d", "e", "f" >>

\* the value of a hex digit of either case, -1 for any other character
HexVal(c) ==
    CASE c = "0" -> 0 [] c = "1" -> 1 [] c = "2" -> 2 [] c = "3" -> 3
      [] c = "4" -> 4 [] c = "5" -> 5 [] c = "6" -> 6 [] c = "7" -> 7
      [] c = "8" -> 8 [] c = "9" -> 9
      [] c \in { "a", "A" } -> 10 [] c \in { "b", "B" } -> 11
      [] c \in { "c", "C" } -> 12 [] c \in { "d", "D" } -> 13
      [] c \in { "e", "E" } -> 14 [] c \in { "f", "F" } -> 15
      [] OTHER -> -1

\* hex::decode: Some(bytes), or None for an odd length or a non-hex character
hex_decode(s) ==
    IF Len(s) % 2 # 0 \/ \E i \in 1..Len(s) : HexVal(s[i]) < 0
    THEN None
    ELSE Some([i \in 1..(Len(s) \div 2) |->
                  16 * HexVal(s[2 * i - 1]) + HexVal(s[2 * i])])

\* hex::encode (lower case), what a signer puts after the prefix
hex_encode(bytes) ==
    [i \in 1..(2 * Len(bytes)) |->
        IF i % 2 = 1 THEN HexDigits[(bytes[(i + 1) \div 2] \div 16) + 1]
                     ELSE HexDigits[(bytes[i \div 2] % 16) + 1]]

\* a byte string folded into one byte
RECURSIVE Digest(_, _)
Digest(bytes, acc) ==
    IF bytes = << >> THEN acc
    ELSE Digest(Tail(bytes), (acc * 31 + Head(bytes) + 1) % 256)

\* Hmac::<Sha256>: the tag of msg under key. The model keeps what the code
\* relies on: a fixed-length tag that is a function of key and message and
\* differs for the different keys and messages of the model.
hmac_sha256(key, msg) == << Digest(key, 7), Digest(msg, 11) >>

\* Mac::verify_slice: the lengths and every byte agree
verify_slice(tag, expected) == expected = tag

\* fn validate_signature(secret, body, signature) -> bool
\* (Hmac::new_from_slice accepts a key of any length: its Err arm is dead)
validate_signature(key, body, signature) ==
    LET expected == hex_decode(trim_start_matches(signature, Sha256Prefix))
    IN  IF ~IsSome(expected) THEN FALSE
        ELSE verify_slice(hmac_sha256(key, body), Unwrap(expected))

----------------------------------------------------------------------------
(* The Webhook Receiver: configuration and inputs *)

\* the key webhook senders sign with, as bytes ("k")
SenderKey == << 107 >>
\* Args.secret
Secrets == { None, Some(SenderKey) }

\* request bodies, as bytes
Body1 == << 49 >>
Body2 == << 50 >>

\* a header value: its text, and whether HeaderValue::to_str accepts it
\* (visible ASCII only)
Visible(s) == [visible |-> TRUE, s |-> s]
Opaque(s) == [visible |-> FALSE, s |-> s]

\* the signature a sender computes over body
sign(key, body, prefixed) ==
    (IF prefixed THEN Sha256Prefix ELSE << >>) \o hex_encode(hmac_sha256(key, body))

HostHeader == << "host", Visible(<< "h" >>) >>
Signed(value) == << HostHeader, << "x-signature", value >> >>

\* Args.path: the default, and a path of its own
Routes == { "/", "/webhook" }

\* inbound requests on one path: unsigned, signed with and without the prefix,
\* signed over another body, with a value that is not hex, with a value that
\* is not text
RequestsOn(p) ==
    { [path |-> p, method |-> "POST", headers |-> << HostHeader >>, body |-> Body1],
      [path |-> p, method |-> "POST",
       headers |-> Signed(Visible(sign(SenderKey, Body1, TRUE))), body |-> Body1],
      [path |-> p, method |-> "GET",
       headers |-> Signed(Visible(sign(SenderKey, Body2, FALSE))), body |-> Body2],
      [path |-> p, method |-> "POST",
       headers |-> Signed(Visible(sign(SenderKey, Body2, TRUE))), body |-> Body1],
      [path |-> p, method |-> "POST",
       headers |-> Signed(Visible(Sha256Prefix \o << "z", "z" >>)), body |-> Body1],
      [path |-> p, method |-> "GET",
       headers |-> Signed(Opaque(sign(SenderKey, Body2, TRUE))), body |-> Body2] }

Requests == UNION { RequestsOn(p) : p \in Routes }

----------------------------------------------------------------------------
(* The Webhook Receiver: handle_request and main *)

\* HeaderMap::get(name).and_then(|h| h.to_str().ok())
header_str(headers, name) ==
    IF \E i \in 1..Len(headers) : headers[i][1] = name
    THEN LET v == headers[CHOOSE i \in 1..Len(headers) :
                            /\ headers[i][1] = name
                            /\ \A j \in 1..(i - 1) : headers[j][1] # name][2]
         IN  IF v.visible THEN Some(v.s) ELSE None
    ELSE None

\* handle_request: whether the gate gets as far as calling validate_signature
verifier_called(sec, headers) ==
    IsSome(sec) /\ IsSome(header_str(headers, "x-signature"))

\* the gate that wants a signature whether or not a secret is configured
auth_gate_secret_unchecked(sec, headers, body) ==
    LET signature == header_str(headers, "x-signature")
    IN  IF IsSome(signature)
        THEN IF IsSome(sec)
                  /\ ~validate_signature(Unwrap(sec), body, Unwrap(signature))
             THEN "Invalid signature"
             ELSE "pass"
        ELSE "Missing signature"

\* the gate with its `else` arm missing: an absent header is let through
auth_gate_no_else(sec, headers, body) ==
    IF IsSome(sec) /\ IsSome(header_str(headers, "x-signature"))
          /\ ~validate_signature(Unwrap(sec), body,
                                 Unwrap(header_str(headers, "x-signature")))
    THEN "Invalid signature"
    ELSE "pass"

\* handle_request: the signature gate. "pass", or the text of the 401
auth_gate(sec, headers, body) ==
    IF IsSome(sec)
    THEN LET signature == header_str(headers, "x-signature")
         IN  IF IsSome(signature)
             THEN IF ~validate_signature(Unwrap(sec), body, Unwrap(signature))
                  THEN "Invalid signature"
                  ELSE "pass"
             ELSE "Missing signature"
    ELSE "pass"

\* String::from_utf8_lossy over the bytes the model uses: an ASCII byte is its
\* character, any other byte becomes U+FFFD
from_utf8_lossy(bytes) ==
    [i \in 1..Len(bytes) |-> IF bytes[i] < 128 THEN bytes[i] ELSE 65533]

\* handle_request: headers_map, the headers whose value is text
headers_map(headers) ==
    { << headers[i][1], headers[i][2].s >> :
        i \in { j \in 1..Len(headers) : headers[j][2].visible } }

\* handle_request: EmergentMessage::new("http.request").with_payload(json!(payload))
to_message(req) ==
    [type |-> "http.request",
     payload |-> [method |-> req.method,
                  path |-> "/",
                  headers |-> headers_map(req.headers),
                  body |-> from_utf8_lossy(req.body),
                  remote_addr |-> None]]

\* the response that answers every publish with 202
publish_response_always_accepted(ok) == [status |-> 202, text |-> ""]

\* handle_request: match state.source.publish(message).await { .. }
publish_response(ok) ==
    IF ok THEN [status |-> 202, text |-> ""]
    ELSE [status |-> 500, text |-> "Failed to publish event"]

\* the connection tasks run until main returns and the runtime is dropped
TasksRunning == main_pc \in { "serving", "disconnecting" }

\* what handle_request writes to stderr: it has no eprintln! and no logger
handler_stderr(gate) == << >>

\* a request arrives on the routed path and handle_request runs up to
\* publish(message).await, or answers 401
HandleRequest(req) ==
    /\ TasksRunning
    /\ Len(conn) < MaxRequests
    /\ req.path = route
    /\ LET gate == auth_gate(secret, req.headers, req.body)
           ran == verifier_called(secret, req.headers)
           id == Len(conn) + 1
       IN  IF gate # "pass"
           THEN /\ conn' = Append(conn, [req |-> req, st |-> "responded", publish |-> "none",
                                         verifier_ran |-> ran,
                                         stderr |-> handler_stderr(gate),
                                         response |-> [status |-> 401, text |-> gate]])
                /\ bus' = bus
           ELSE /\ conn' = Append(conn, [req |-> req, st |-> "publishing",
                                         publish |-> "pending",
                                         verifier_ran |-> ran,
                                         stderr |-> handler_stderr(gate),
                                         response |-> [status |-> 0, text |-> ""]])
                /\ bus' = Append(bus, [op |-> "publish", id |-> id,
                                       message |-> to_message(req)])
    /\ UNCHANGED << secret, route, main_pc, rsig >>
    /\ UNCHANGED sinkVars
    /\ UNCHANGED pureVars

\* publish(message).await completes and handle_request answers
PublishCompletes(id, ok) ==
    /\ TasksRunning
    /\ id \in 1..Len(conn)
    /\ conn[id].st = "publishing"
    /\ conn' = [conn EXCEPT ![id] = [@ EXCEPT !.st = "responded",
                                              !.publish = IF ok THEN "ok" ELSE "err",
                                              !.response = publish_response(ok)]]
    /\ UNCHANGED << secret, route, main_pc, rsig, bus >>
    /\ UNCHANGED sinkVars
    /\ UNCHANGED pureVars

\* the environment delivers SIGTERM to the process
DeliverSigtermToReceiver ==
    /\ main_pc = "serving"
    /\ ~rsig
    /\ rsig' = TRUE
    /\ UNCHANGED << secret, route, main_pc, conn, bus >>
    /\ UNCHANGED sinkVars
    /\ UNCHANGED pureVars

\* main, select! branch: _ = sigterm.recv() => state.source.disconnect() is
\* called; the server future is dropped, the connection tasks are not awaited
ReceiverSigterm ==
    /\ main_pc = "serving"
    /\ rsig
    /\ rsig' = FALSE
    /\ bus' = Append(bus, [op |-> "disconnect", id |-> 0,
                           in_flight |-> { i \in 1..Len(conn) : conn[i].st = "publishing" }])
    /\ main_pc' = "disconnecting"
    /\ UNCHANGED << secret, route, conn >>
    /\ UNCHANGED sinkVars
    /\ UNCHANGED pureVars

\* main: disconnect().await completes, main returns Ok(())
DisconnectCompletes ==
    /\ main_pc = "disconnecting"
    /\ main_pc' = "returned"
    /\ UNCHANGED << secret, route, rsig, conn, bus >>
    /\ UNCHANGED sinkVars
    /\ UNCHANGED pureVars

\* main, select! branch: result = server => { result?; }, then main returns
ServerCompletes ==
    /\ main_pc = "serving"
    /\ main_pc' = "returned"
    /\ UNCHANGED << secret, route, rsig, conn, bus >>
    /\ UNCHANGED sinkVars
    /\ UNCHANGED pureVars

\* the Dispatcher's variables, at rest while the Receiver is the process modelled
SinkIdle ==
    /\ args = [base_url |-> None, retries |-> U32(0), auth_header |-> None]
    /\ overflow_checks = FALSE
    /\ pc = "idle"
    /\ sigterm = FALSE
    /\ signalled_in = "never"
    /\ pulled = 0
    /\ call = NoCall
    /\ trace = << >>

ReceiverInit ==
    /\ secret \in Secrets
    /\ route \in Routes
    /\ main_pc = "serving"
    /\ rsig = FALSE
    /\ conn = << >>
    /\ bus = << >>
    /\ SinkIdle
    /\ PureIdle

ReceiverNext ==
    \/ \E req \in Requests : HandleRequest(req)
    \/ \E id \in 1..MaxRequests, ok \in BOOLEAN : PublishCompletes(id, ok)
    \/ DeliverSigtermToReceiver
    \/ ReceiverSigterm
    \/ DisconnectCompletes
    \/ ServerCompletes

ReceiverSpec == ReceiverInit /\ [][ReceiverNext]_vars

----------------------------------------------------------------------------
(* The Request Translator, outbound direction, applied on its own: what     *)
(* main and make_request make of one payload under one configuration, up to *)
(* the request of the first attempt.                                        *)

\* a field of a JSON object: absent, or present with a value
Absent == << >>
Field(name, v) == IF v = Absent THEN << >> ELSE << << name, v >> >>

\* a base_url with n trailing '/'
RECURSIVE Slashes(_)
Slashes(n) == IF n = 0 THEN << >> ELSE << "/" >> \o Slashes(n - 1)
HttpX == << "h", "t", "t", "p", ":", "/", "/", "x" >>
BaseUrls == { None } \cup { Some(HttpX \o Slashes(n)) : n \in 0..MaxSlashes }

\* the values the request-shaping fields of a payload may have
Foo == << "/", "f", "o", "o" >>
UrlFields == { Absent, Str(<< "h", ":", "u" >>), Num(1) }
PathFields == { Absent, Str(Foo), Num(2) }
MethodFields ==
    { Absent, Str(<< "g", "e", "t" >>), Str(<< "P", "u", "t" >>),
      Str(<< "D", "E", "L", "E", "T", "E" >>), Str(<< "p", "a", "t", "c", "h" >>),
      Str(<< "p", "o", "s", "t" >>), Str(<< "h", "e", "a", "d" >>), Num(3) }
HeadersFields ==
    { Absent, Str(<< "h" >>),
      Obj(<< << "Authorization", Str(<< "p" >>) >>,
             << "X-A", Str(<< "1" >>) >>,
             << "X-N", Num(5) >> >>),
      Obj(<< << "X-N", Num(5) >> >>) }
BodyFields == { Absent, Null, Num(1) }

\* payloads: the objects over those fields (keys in map order), and two
\* payloads that are no object
TranslatorPayloads ==
    { Obj(Field("body", b) \o Field("headers", h) \o Field("method", m)
            \o Field("path", pa) \o Field("url", u)) :
        b \in BodyFields, h \in HeadersFields, m \in MethodFields,
        pa \in PathFields, u \in UrlFields }
    \cup { Null, Str(Foo) }

TranslatorInputs ==
    { [fn |-> "to_request", payload |-> p,
       args |-> [base_url |-> b, retries |-> U32(0), auth_header |-> a]] :
        p \in TranslatorPayloads, b \in BaseUrls, a \in { None, Some(<< "k" >>) } }

\* main, Some(msg) arm, and make_request up to the first request.send():
\* the target, and the request built for it (none when the target is missing)
to_request ==
    /\ input.fn = "to_request"
    /\ ~output.done
    /\ LET payload == input.payload
           url == extract_url(payload, input.args.base_url)
       IN  output' =
             [done |-> TRUE,
              url |-> url,
              request |-> IF IsSome(url)
                          THEN Some(build_request(Unwrap(url), extract_method(payload),
                                                  extract_headers(payload),
                                                  extract_body(payload), input.args))
                          ELSE None]
    /\ UNCHANGED input
    /\ UNCHANGED sinkVars
    /\ UNCHANGED sourceVars

TranslatorInit ==
    /\ input \in TranslatorInputs
    /\ output = NoOutput
    /\ SinkIdle
    /\ SourceIdle

TranslatorNext == to_request

TranslatorSpec == TranslatorInit /\ [][TranslatorNext]_vars

----------------------------------------------------------------------------
(* The Signature Verifier applied on its own *)

\* secrets, as bytes ("k", "l")
VerifierKeys == { << 107 >>, << 108 >> }

\* the byte strings over "1" and "2" of length n, and the bodies up to MaxBodyLen
RECURSIVE BytesOfLen(_)
BytesOfLen(n) ==
    IF n = 0 THEN { << >> }
    ELSE { << b >> \o t : b \in { 49, 50 }, t \in BytesOfLen(n - 1) }
VerifierBodies == UNION { BytesOfLen(n) : n \in 0..MaxBodyLen }

\* header values made from one well-formed hex tag: the tag with and without
\* the prefix, in upper case, and the ways of spoiling it
SignaturesFrom(hex) ==
    { hex,
      Sha256Prefix \o hex,
      to_uppercase(hex),
      Sha256Prefix \o Sha256Prefix \o hex,
      Sha256Prefix \o << "z", "z" >> \o hex,
      SubSeq(hex, 1, Len(hex) - 1),
      Sha256Prefix \o SubSeq(hex, 1, Len(hex) - 2),
      hex \o << "0", "0" >>,
      Sha256Prefix,
      << >> }

VerifierSignatures ==
    UNION { SignaturesFrom(hex_encode(hmac_sha256(k, b))) :
              k \in VerifierKeys, b \in VerifierBodies }

VerifierInputs ==
    { [fn |-> "validate_signature", key |-> k, body |-> b, signature |-> sg] :
        k \in VerifierKeys, b \in VerifierBodies, sg \in VerifierSignatures }

\* validate_signature(secret, body, signature) is called and returns
verify ==
    /\ input.fn = "validate_signature"
    /\ ~output.done
    /\ output' = [done |-> TRUE,
                  value |-> validate_signature(input.key, input.body, input.signature)]
    /\ UNCHANGED input
    /\ UNCHANGED sinkVars
    /\ UNCHANGED sourceVars

VerifierInit ==
    /\ input \in VerifierInputs
    /\ output = NoOutput
    /\ SinkIdle
    /\ SourceIdle

VerifierNext == verify

VerifierSpec == VerifierInit /\ [][VerifierNext]_vars

----------------------------------------------------------------------------
(* Properties of the Dispatcher *)

Idx == 1..Len(trace)
\* the positions of the history entries of one kind for Event e
Of(kind, e) == { i \in Idx : trace[i].kind = kind /\ trace[i].ev = e }
IsSuccessResponse(entry) ==
    entry.kind = "response" /\ entry.result.ok /\ is_success(entry.result.status)
HasTarget(payload) == IsSome(extract_url(payload, args.base_url))
\* the dispatch of Event e is over: make_request is not running for it
DispatchOver(e) == ~(call.active /\ call.ev = e)
\* n = N + 1 as numbers, N a u32 (n is a length, far below 2^32)
IsNPlus1(n, N) == N # U32_MAX /\ U32(n) = U32Add1(N).value

\* C1: for every retries = N and every Event with a resolvable target whose
\* attempts all fail, exactly N+1 requests are sent, then make_request returns
\* an error and main is back at its select!
C1_RetryBound ==
    \A i \in Idx :
        (/\ trace[i].kind = "pull"
         /\ HasTarget(trace[i].payload)
         /\ DispatchOver(trace[i].ev)
         /\ \A j \in Of("response", trace[i].ev) : ~IsSuccessResponse(trace[j]))
        => /\ IsNPlus1(Cardinality(Of("request", trace[i].ev)), args.retries)
           /\ \E j \in Of("return", trace[i].ev) : trace[j].result = "Err"

\* The retry bound for every retries below u32::MAX (where retries + 1 does
\* not overflow): N+1 requests, numbered 1..N+1, then Err.
RetryBoundBelowMax ==
    args.retries # U32_MAX =>
        \A i \in Idx :
            (/\ trace[i].kind = "pull"
             /\ HasTarget(trace[i].payload)
             /\ DispatchOver(trace[i].ev)
             /\ \A j \in Of("response", trace[i].ev) : ~IsSuccessResponse(trace[j]))
            => /\ { trace[j].attempt : j \in Of("request", trace[i].ev) }
                    = 1..(U32Val(args.retries) + 1)
               /\ Cardinality(Of("request", trace[i].ev)) = U32Val(args.retries) + 1
               /\ \E j \in Of("return", trace[i].ev) : trace[j].result = "Err"

\* C2: when attempt k is the first of an Event to get a 2xx response, exactly k
\* requests were sent for it, k <= retries + 1, make_request returns Ok at
\* once, and no request and no sleep of that Event follows the response.
C2_StopOnSuccess ==
    \A i \in Idx :
        IsSuccessResponse(trace[i]) =>
            LET e == trace[i].ev
                k == trace[i].attempt
            IN  /\ 1 <= k
                /\ args.retries # U32_MAX => k <= U32Val(args.retries) + 1
                /\ { trace[j].attempt : j \in Of("request", e) } = 1..k
                /\ Cardinality(Of("request", e)) = k
                /\ \A j \in Of("response", e) : j < i => ~IsSuccessResponse(trace[j])
                /\ i < Len(trace)
                /\ trace[i + 1] = [kind |-> "return", ev |-> e, result |-> "Ok"]
                /\ \A j \in Idx : (j > i /\ trace[j].ev = e)
                                    => trace[j].kind \notin { "request", "sleep" }

\* C2 witness: an Event succeeded on its second attempt and the next Event's
\* request is in flight.
C2_Witness ==
    /\ pc = "sending"
    /\ \E i \in Idx : /\ IsSuccessResponse(trace[i])
                      /\ trace[i].attempt = 2
                      /\ trace[i].ev < pulled

\* C3: Events are dispatched strictly one after another: the history never
\* goes back to an earlier Event, an Event is pulled only after the previous
\* one's dispatch has returned (or was skipped), its pull comes before
\* everything else of it (so every request and sleep of one Event precedes
\* the first request of the next), and the only dispatch that can be in
\* progress is that of the Event pulled last.
C3_StrictSequential ==
    /\ \A i \in Idx : i < Len(trace) => trace[i].ev <= trace[i + 1].ev
    /\ \A i \in Idx :
          (trace[i].kind = "pull" /\ trace[i].ev > 1)
          => /\ i > 1
             /\ \E j \in Idx : /\ j < i
                               /\ trace[j].ev = trace[i].ev - 1
                               /\ trace[j].kind \in { "return", "skip" }
    /\ \A i \in Idx :
          (trace[i].kind = "pull" /\ i > 1) => trace[i - 1].ev < trace[i].ev
    /\ call.active <=> pc \in { "sending", "sleeping" }
    /\ call.active => call.ev = pulled

\* C3 witness: the first Event was retried after a backoff sleep and the
\* second Event's request is in flight.
C3_Witness ==
    /\ pc = "sending"
    /\ call.ev = 2
    /\ Of("sleep", 1) # {}
    /\ Of("request", 2) # {}

\* C6: an Event whose payload has neither `url` nor `path` gets no request and
\* no sleep; the condition is logged and main is back at its select! at once.
C6_MissingTargetSkipped ==
    \A i \in Idx :
        (/\ trace[i].kind = "pull"
         /\ ~IsSome(get(trace[i].payload, "url"))
         /\ ~IsSome(get(trace[i].payload, "path")))
        => LET e == trace[i].ev
           IN  /\ Of("request", e) = {}
               /\ Of("sleep", e) = {}
               /\ i + 2 <= Len(trace)
               /\ trace[i + 1].kind = "eprintln" /\ trace[i + 1].ev = e
               /\ trace[i + 2] = [kind |-> "skip", ev |-> e]
               /\ (i + 2 = Len(trace)) => (pc = "select" /\ ~call.active)

\* C6 witness: the first Event had no target and was skipped, and a second
\* Event has been pulled, under retries = u32::MAX and a configured base_url.
C6_Witness ==
    /\ pulled = 2
    /\ Of("skip", 1) # {}
    /\ args.retries = U32_MAX
    /\ IsSome(args.base_url)

\* C7: whichever branch ends main (the signal, or the stream's end marker /
\* the server future completing), disconnect() has been called before main
\* returns, in the Dispatcher and in the Receiver.
C7_DisconnectOnEitherPath ==
    /\ pc = "done" => \E i \in Idx : trace[i].kind = "disconnect"
    /\ main_pc = "returned" => \E i \in 1..Len(bus) : bus[i].op = "disconnect"

\* C9: a SIGTERM delivered during a dispatch aborts nothing: when disconnect()
\* is called every request sent has had its response, every Event pulled has
\* had its make_request return (or was skipped), and no dispatch is in progress.
C9_SignalDoesNotAbortDispatch ==
    \A d \in Idx :
        trace[d].kind = "disconnect" =>
            /\ \A i \in Idx :
                  (i < d /\ trace[i].kind = "request")
                  => /\ i + 1 < d
                     /\ trace[i + 1].kind = "response"
                     /\ trace[i + 1].ev = trace[i].ev
                     /\ trace[i + 1].attempt = trace[i].attempt
            /\ \A i \in Idx :
                  (i < d /\ trace[i].kind = "pull")
                  => \E j \in Idx : /\ i < j /\ j < d
                                    /\ trace[j].ev = trace[i].ev
                                    /\ trace[j].kind \in { "return", "skip" }
            /\ ~call.active

\* C9 witness: SIGTERM arrived while a request was in flight, the dispatch
\* went on to a later attempt and returned, and then disconnect() was called.
C9_Witness ==
    /\ signalled_in = "sending"
    /\ \E d \in Idx : trace[d].kind = "disconnect"
    /\ \E i \in Idx : trace[i].kind = "request" /\ trace[i].attempt = 2 /\ trace[i].ev = pulled

\* C10 as claimed: once SIGTERM is delivered and main is at its select!, no
\* further Event is pulled.
C10_NoPullAfterSignal ==
    [][(pc = "select" /\ sigterm) => pulled' = pulled]_vars

\* C10 as amended: when the signal branch is taken, disconnect() is the last
\* thing the Dispatcher does: main has left its loop, no dispatch is in
\* progress, and no pull and no request follows it.
C10_NothingAfterDisconnect ==
    \A d \in Idx :
        trace[d].kind = "disconnect" =>
            /\ d = Len(trace)
            /\ pc = "done"
            /\ ~call.active
            /\ ~sigterm

\* C10 witness: SIGTERM arrived while main was at its select!, a request was
\* sent for an Event all the same, and disconnect() came after it.
C10_Witness ==
    /\ signalled_in = "select"
    /\ Len(trace) > 0 /\ trace[Len(trace)].kind = "disconnect"
    /\ Of("request", pulled) # {}

----------------------------------------------------------------------------
(* Properties of the Receiver *)

Conns == 1..Len(conn)
\* the publish calls made for request id
PublishesOf(id) == { i \in 1..Len(bus) : bus[i].op = "publish" /\ bus[i].id = id }
\* the request carries no X-Signature header that can be read as text
NoSignature(req) == ~IsSome(header_str(req.headers, "x-signature"))
\* the request's X-Signature does not verify against its raw body
BadSignature(req) ==
    /\ IsSome(header_str(req.headers, "x-signature"))
    /\ ~validate_signature(Unwrap(secret), req.body,
                           Unwrap(header_str(req.headers, "x-signature")))
PassesGate(req) == ~IsSome(secret) \/ (~NoSignature(req) /\ ~BadSignature(req))

\* C4: with a secret configured, a request without an X-Signature header, or
\* whose X-Signature fails verification against the raw body, is answered 401
\* and publish is never called for it.
C4_AuthenticationGate ==
    IsSome(secret) =>
        \A id \in Conns :
            (NoSignature(conn[id].req) \/ BadSignature(conn[id].req))
            => /\ conn[id].st = "responded"
               /\ conn[id].response.status = 401
               /\ conn[id].publish = "none"
               /\ PublishesOf(id) = {}

\* C4 witness: with a secret configured, one request came unsigned and one
\* with a signature over another body; both have been answered.
C4_Witness ==
    /\ IsSome(secret)
    /\ \E a, b \in Conns :
          /\ NoSignature(conn[a].req) /\ conn[a].st = "responded"
          /\ BadSignature(conn[b].req) /\ conn[b].st = "responded"
          /\ conn[b].req.headers[2][2] = Visible(sign(SenderKey, Body2, TRUE))

\* C5: a request that passes the gate has publish called exactly once; it is
\* answered 202 exactly when that call succeeded and 500 exactly when it
\* failed; a 202 is backed by a published Event of type http.request.
C5_ResponseFollowsPublish ==
    \A id \in Conns :
        PassesGate(conn[id].req) =>
            /\ Cardinality(PublishesOf(id)) = 1
            /\ \A i \in PublishesOf(id) : bus[i].message.type = "http.request"
            /\ conn[id].st = "responded"
                  => /\ conn[id].publish \in { "ok", "err" }
                     /\ conn[id].response.status = 202 <=> conn[id].publish = "ok"
                     /\ conn[id].response.status = 500 <=> conn[id].publish = "err"
            /\ conn[id].st = "publishing"
                  => conn[id].publish = "pending" /\ conn[id].response.status = 0

\* C5 witness: one request was published and answered 202, another's publish
\* failed and it was answered 500.
C5_Witness ==
    \E a, b \in Conns :
        /\ conn[a].publish = "ok" /\ conn[a].response.status = 202
        /\ conn[b].publish = "err" /\ conn[b].response.status = 500

\* C8: when disconnect() is called on SIGTERM, every request whose handling
\* has begun has had its response, and publish is never called after it.
C8_ResponsesBeforeDisconnect ==
    \A d \in 1..Len(bus) :
        bus[d].op = "disconnect" =>
            /\ bus[d].in_flight = {}
            /\ \A i \in 1..Len(bus) : i > d => bus[i].op # "publish"

\* the request that publish call i of the bus history was made for
RequestOf(i) == conn[bus[i].id].req
Publishes == { i \in 1..Len(bus) : bus[i].op = "publish" }
\* the X-Signature values of a request that can be read as text
SignatureValues(req) ==
    { req.headers[j][2].s : j \in { k \in 1..Len(req.headers) :
                                       /\ req.headers[k][1] = "x-signature"
                                       /\ req.headers[k][2].visible } }

\* C11: the payload of a published Event holds neither the X-Signature header
\* nor its value: no entry of its headers map is named x-signature, and no
\* entry's value is the signature.
C11_NoSignatureMaterial ==
    \A i \in Publishes :
        LET payload == bus[i].message.payload
        IN  /\ \A h \in payload.headers : h[1] # "x-signature"
            /\ \A v \in SignatureValues(RequestOf(i)) :
                  \A h \in payload.headers : h[2] # v

\* C17: a published Event has type http.request, and its payload has the
\* request's method, the path the request was received on, and the raw body
\* as text (every ASCII byte its own character).
C17_PublishedEventContent ==
    \A i \in Publishes :
        LET payload == bus[i].message.payload
            req == RequestOf(i)
        IN  /\ bus[i].message.type = "http.request"
            /\ payload.method = req.method
            /\ payload.path = req.path
            /\ Len(payload.body) = Len(req.body)
            /\ \A k \in 1..Len(req.body) :
                  req.body[k] < 128 => payload.body[k] = req.body[k]

\* C18: with no secret configured no request is answered 401, the verifier is
\* never run, and every request, signed or not, gets exactly one publish call
\* and is answered with 202 or 500.
C18_SignatureRequiredOnlyWithSecret ==
    ~IsSome(secret) =>
        \A id \in Conns :
            /\ conn[id].response.status # 401
            /\ ~conn[id].verifier_ran
            /\ Cardinality(PublishesOf(id)) = 1
            /\ conn[id].st = "responded" => conn[id].response.status \in { 202, 500 }
            /\ conn[id].st # "responded" => conn[id].st = "publishing"

\* C18 witness: with no secret configured, a request without X-Signature and
\* one whose X-Signature is not hex have both been answered, one of them 202.
C18_Witness ==
    /\ ~IsSome(secret)
    /\ \E a, b \in Conns :
          /\ NoSignature(conn[a].req) /\ conn[a].st = "responded"
          /\ SignatureValues(conn[b].req) = { Sha256Prefix \o << "z", "z" >> }
          /\ conn[b].st = "responded" /\ conn[b].response.status = 202

\* a line written to stderr while Event e was handled, or after position i
LinesOf(e) == { j \in Idx : trace[j].kind = "eprintln" /\ trace[j].ev = e }
\* a line names its subject: the target URL or the Event
NamesSubject(text) == "url" \in DOMAIN text \/ "event" \in DOMAIN text

\* C16: every failure leaves a log line that names its subject: a skipped
\* Event (MissingTarget), a dispatch that ended in an error (with the target
\* URL), a failed disconnect(), and in the Receiver every 401 and every 500.
C16_EveryFailureLogged ==
    /\ \A i \in Idx :
          trace[i].kind = "skip"
          => \E j \in LinesOf(trace[i].ev) : NamesSubject(trace[j].text)
    /\ \A i \in Idx :
          (trace[i].kind = "return" /\ trace[i].result = "Err")
          => \E j \in LinesOf(trace[i].ev) : j > i /\ NamesSubject(trace[j].text)
    /\ \A i \in Idx :
          (trace[i].kind = "disconnect" /\ ~trace[i].ok)
          => \E j \in Idx : j > i /\ trace[j].kind = "eprintln"
    /\ \A id \in Conns :
          conn[id].response.status \in { 401, 500 } => conn[id].stderr # << >>

\* attempt k is not the last one allowed: k < retries + 1
NotLastAttempt(k) == args.retries = U32_MAX \/ k < U32Val(args.retries) + 1
IsFailedResponse(entry) == entry.kind = "response" /\ ~IsSuccessResponse(entry)

\* C19: after failed attempt k with k < retries + 1 the Dispatcher sleeps
\* exactly 100 * k ms and then makes attempt k + 1 of the same Event; after
\* the final failed attempt and after a successful one make_request returns
\* without a sleep; a sleep only ever follows a failed attempt, whether the
\* failure was a status or a transport error.
C19_LinearBackoff ==
    \A i \in Idx :
        /\ IsFailedResponse(trace[i]) =>
              LET k == trace[i].attempt
                  e == trace[i].ev
              IN  IF NotLastAttempt(k)
                  THEN /\ i + 2 <= Len(trace)
                       /\ trace[i + 1].kind = "eprintln"
                       /\ trace[i + 2] = [kind |-> "sleep", ev |-> e, attempt |-> k,
                                          ms |-> 100 * k]
                       /\ i + 3 <= Len(trace)
                            => /\ trace[i + 3].kind = "request"
                               /\ trace[i + 3].ev = e
                               /\ trace[i + 3].attempt = k + 1
                       /\ i + 2 = Len(trace) => pc = "sleeping"
                  ELSE /\ i + 1 <= Len(trace)
                       /\ trace[i + 1] = [kind |-> "return", ev |-> e, result |-> "Err"]
                       /\ \A j \in Of("sleep", e) : j < i
        /\ IsSuccessResponse(trace[i]) =>
              /\ i + 1 <= Len(trace)
              /\ trace[i + 1].kind = "return"
              /\ \A j \in Of("sleep", trace[i].ev) : j < i
        /\ trace[i].kind = "sleep" =>
              /\ i > 2
              /\ IsFailedResponse(trace[i - 2])
              /\ trace[i - 2].ev = trace[i].ev
              /\ trace[i - 2].attempt = trace[i].attempt

\* C19 witness: with retries = 2 an Event's first attempt got a 503 and was
\* followed by a 100 ms sleep, its second met a transport error and was
\* followed by a 200 ms sleep, its third failed and make_request returned an
\* error with no further sleep.
C19_Witness ==
    /\ args.retries = U32(2)
    /\ pc = "select"
    /\ \E i, j \in Of("sleep", pulled) :
          /\ trace[i].ms = 100 /\ trace[i - 2].result.ok
          /\ trace[j].ms = 200 /\ ~trace[j - 2].result.ok
    /\ \E i \in Of("response", pulled) :
          /\ trace[i].attempt = 3
          /\ trace[i + 1] = [kind |-> "return", ev |-> pulled, result |-> "Err"]
    /\ Cardinality(Of("sleep", pulled)) = 2

\* the Event before e ended in retry exhaustion or was skipped
PreviousFailed(e) ==
    \E j \in Idx : /\ trace[j].ev = e - 1
                    /\ \/ trace[j].kind = "skip"
                       \/ trace[j].kind = "return" /\ trace[j].result = "Err"
AllAttemptsFailed(e) == \A j \in Of("response", e) : ~IsSuccessResponse(trace[j])

\* C21: the attempt counter starts afresh for each Event: its requests are
\* numbered 1, 2, ... whatever came before, and an Event that follows one
\* that exhausted its retries or was skipped, and whose attempts all fail,
\* still gets retries + 1 of them; every attempt of an Event sends the same
\* request, whose target is the one resolved from its payload.
C21_RetryStatePerEvent ==
    \A i \in Idx :
        (trace[i].kind = "pull" /\ HasTarget(trace[i].payload)) =>
            LET e == trace[i].ev
                reqs == Of("request", e)
            IN  /\ \A j \in reqs :
                      trace[j].attempt = Cardinality({ k \in reqs : k <= j })
                /\ \A j, k \in reqs : trace[j].req = trace[k].req
                /\ \A j \in reqs :
                      trace[j].req.url = Unwrap(extract_url(trace[i].payload, args.base_url))
                /\ (/\ e > 1 /\ PreviousFailed(e)
                    /\ DispatchOver(e) /\ pc # "panicked"
                    /\ AllAttemptsFailed(e))
                   => IsNPlus1(Cardinality(reqs), args.retries)

\* C22: no failure of one Event ends main's loop: main is never stopped by a
\* panic, after a skip and after a failed dispatch it is back at its select!,
\* and it has left the loop only by the signal branch or at the stream's end
\* marker.
C22_FailuresIsolated ==
    /\ pc # "panicked"
    /\ pc = "done" => /\ Len(trace) > 0
                      /\ trace[Len(trace)].kind \in { "disconnect", "stream_end" }
    /\ \A i \in Idx :
          (/\ i = Len(trace)
           /\ \/ trace[i].kind = "skip"
              \/ trace[i].kind = "eprintln" /\ i > 1 /\ trace[i - 1].kind = "return")
          => pc = "select"
    /\ \A i \in Idx :
          trace[i].kind = "pull"
          => \E j \in Idx : /\ j > i /\ trace[j].ev = trace[i].ev
                            /\ trace[j].kind \in { "skip", "request", "return" }

\* C24: retries + 1 never wraps: no dispatch panics, every Event with a
\* resolvable target has a request sent for it as soon as it is pulled, the
\* attempts allowed are retries + 1 >= 1, and make_request only returns an
\* error right after a failed response, never from behind its loop.
C24_AtLeastOneAttempt ==
    /\ pc # "panicked"
    /\ call.active => /\ call.max_attempts # U32(0)
                      /\ U32Lt(args.retries, call.max_attempts)
    /\ \A i \in Idx :
          (trace[i].kind = "pull" /\ HasTarget(trace[i].payload))
          => Of("request", trace[i].ev) # {}
    /\ \A i \in Idx :
          (trace[i].kind = "return" /\ trace[i].result = "Err")
          => /\ i > 1
             /\ trace[i - 1].kind = "response"
             /\ trace[i - 1].ev = trace[i].ev

\* disconnect() has been called and main has left its loop
DisconnectedAndOut == pc = "done" /\ \E i \in Idx : trace[i].kind = "disconnect"

\* C23: once a termination signal has been delivered, the Dispatcher
\* eventually calls disconnect() and leaves its loop.
C23_ShutdownEventuallyHappens == sigterm ~> DisconnectedAndOut

----------------------------------------------------------------------------
(* Properties of the Request Translator, outbound direction *)

\* the translation has been made
Translated == input.fn = "to_request" /\ output.done
\* a field of the payload is present and a string
IsString(o) == IsSome(o) /\ Unwrap(o).t = "string"
\* s without its trailing '/': the longest prefix of s that does not end in '/'
Stripped(s) ==
    SubSeq(s, 1, CHOOSE n \in 0..Len(s) :
                    /\ n = 0 \/ s[n] # "/"
                    /\ \A k \in (n + 1)..Len(s) : s[k] = "/")
\* the base a path is appended to: base_url stripped, nothing when not configured
BaseFor(base_url) == IF IsSome(base_url) THEN Stripped(Unwrap(base_url)) ELSE << >>
HttpXFoo == << "h", "t", "t", "p", ":", "/", "/", "x", "/", "f", "o", "o" >>

\* C12 as claimed: the target is payload.url when that is a string; otherwise,
\* when payload.path is present, resolution succeeds, with base_url (trailing
\* '/' stripped, if configured) followed by path; otherwise it fails.
C12_TargetResolutionOrder ==
    Translated =>
        LET url == get(input.payload, "url")
            path == get(input.payload, "path")
        IN  IF IsString(url) THEN output.url = Some(Unwrap(url).s)
            ELSE IF IsSome(path)
                 THEN /\ IsSome(output.url)
                      /\ IsString(path)
                           => output.url = Some(BaseFor(input.args.base_url) \o Unwrap(path).s)
            ELSE output.url = None

\* C12 as amended: the target is payload.url when that is a string; otherwise,
\* when payload.path is a string, it is base_url (trailing '/' stripped)
\* followed by path, or path alone with no base_url; in every other case
\* resolution fails. Path /foo under http://x with any number of trailing '/'
\* gives http://x/foo.
C12_TargetResolutionStringPath ==
    Translated =>
        LET url == get(input.payload, "url")
            path == get(input.payload, "path")
        IN  /\ IF IsString(url) THEN output.url = Some(Unwrap(url).s)
               ELSE IF IsString(path)
                    THEN output.url = Some(BaseFor(input.args.base_url) \o Unwrap(path).s)
               ELSE output.url = None
            /\ (/\ ~IsString(url) /\ path = Some(Str(Foo))
                /\ IsSome(input.args.base_url)
                /\ Stripped(Unwrap(input.args.base_url)) = HttpX)
               => output.url = Some(HttpXFoo)
            /\ (~IsString(url) /\ IsString(path) /\ ~IsSome(input.args.base_url))
               => output.url = Some(Unwrap(path).s)

\* C12 witness: a payload whose url is not a string and whose path is /foo,
\* under base_url http://x//, has been resolved to http://x/foo.
C12_Witness ==
    /\ Translated
    /\ get(input.payload, "url") = Some(Num(1))
    /\ get(input.payload, "path") = Some(Str(Foo))
    /\ input.args.base_url = Some(HttpX \o << "/", "/" >>)
    /\ output.url = Some(HttpXFoo)

\* the lower-case form of the letters of the method names
LowerOf(c) ==
    CASE c = "G" -> "g" [] c = "E" -> "e" [] c = "T" -> "t" [] c = "P" -> "p"
      [] c = "O" -> "o" [] c = "S" -> "s" [] c = "U" -> "u" [] c = "D" -> "d"
      [] c = "L" -> "l" [] c = "A" -> "a" [] c = "C" -> "c" [] c = "H" -> "h"
      [] OTHER -> c
\* s is name up to the case of its letters
SpellsIgnoringCase(s, name) ==
    /\ Len(s) = Len(name)
    /\ \A i \in 1..Len(s) : s[i] \in { name[i], LowerOf(name[i]) }
MethodNames ==
    { << << "G", "E", "T" >>, "GET" >>, << << "P", "O", "S", "T" >>, "POST" >>,
      << << "P", "U", "T" >>, "PUT" >>,
      << << "D", "E", "L", "E", "T", "E" >>, "DELETE" >>,
      << << "P", "A", "T", "C", "H" >>, "PATCH" >> }

\* C13: the method of the outbound request is payload.method uppercased when
\* that spells GET, POST, PUT, DELETE or PATCH, and POST in every other case
\* (method absent, not a string, or another string).
C13_MethodResolution ==
    (Translated /\ IsSome(output.request)) =>
        LET m == get(input.payload, "method")
            sent == Unwrap(output.request).method
        IN  IF IsString(m) /\ \E mn \in MethodNames : SpellsIgnoringCase(Unwrap(m).s, mn[1])
            THEN \E mn \in MethodNames :
                    SpellsIgnoringCase(Unwrap(m).s, mn[1]) /\ sent = mn[2]
            ELSE sent = "POST"

\* C13 witness: a request has been built for a payload with method "get", and
\* its method is GET.
C13_Witness ==
    /\ Translated
    /\ get(input.payload, "method") = Some(Str(<< "g", "e", "t" >>))
    /\ IsSome(output.request)
    /\ Unwrap(output.request).method = "GET"

\* C14 as claimed: the JSON body of the outbound request is payload.body when
\* that is present and not null, and the entire payload in every other case.
C14_BodyResolution ==
    (Translated /\ IsSome(output.request)) =>
        LET b == get(input.payload, "body")
        IN  Unwrap(output.request).json =
                IF IsSome(b) /\ Unwrap(b) # Null THEN Some(Unwrap(b))
                ELSE Some(input.payload)

\* C14 as amended: the JSON body is payload.body when that is present and not
\* null, the entire payload when the payload has no body field, and no body
\* is attached when payload.body is present with the value null.
C14_BodyResolutionNullSendsNone ==
    (Translated /\ IsSome(output.request)) =>
        LET b == get(input.payload, "body")
        IN  Unwrap(output.request).json =
                IF ~IsSome(b) THEN Some(input.payload)
                ELSE IF Unwrap(b) # Null THEN Some(Unwrap(b))
                ELSE None

\* C14 witness: a request has been built for a payload without a body field,
\* and the whole payload is its JSON body.
C14_Witness ==
    /\ Translated
    /\ ~IsSome(get(input.payload, "body"))
    /\ IsSome(output.request)
    /\ Unwrap(output.request).json = Some(input.payload)

\* the entries of payload.headers, when it is an object
HeaderEntries ==
    LET h == get(input.payload, "headers")
    IN  IF IsSome(h) /\ Unwrap(h).t = "object" THEN Unwrap(h).o ELSE << >>
\* the positions of the entries whose value is a string
StringEntries == { i \in 1..Len(HeaderEntries) : HeaderEntries[i][2].t = "string" }

\* C20: the request carries the configured Authorization value first, when
\* one is configured, whether or not payload.headers has an entry of that
\* name; after it come the payload.headers entries with string values, all of
\* them and nothing else; absent or non-object payload.headers add nothing.
C20_HeaderApplication ==
    (Translated /\ IsSome(output.request)) =>
        LET hs == Unwrap(output.request).headers
            auth == input.args.auth_header
            n0 == IF IsSome(auth) THEN 1 ELSE 0
        IN  /\ Len(hs) = n0 + Cardinality(StringEntries)
            /\ IsSome(auth) => hs[1] = << "Authorization", Unwrap(auth) >>
            /\ \A i \in StringEntries :
                  \E j \in (n0 + 1)..Len(hs) :
                      hs[j] = << HeaderEntries[i][1], HeaderEntries[i][2].s >>
            /\ \A j \in (n0 + 1)..Len(hs) :
                  \E i \in StringEntries :
                      hs[j] = << HeaderEntries[i][1], HeaderEntries[i][2].s >>

\* C20 witness: with an Authorization value configured, a request was built
\* for a payload whose headers have an Authorization entry, another string
\* entry and a number entry: it carries the configured value, then the two
\* string entries.
C20_Witness ==
    /\ Translated
    /\ IsSome(input.args.auth_header)
    /\ Len(HeaderEntries) = 3
    /\ IsSome(output.request)
    /\ Unwrap(output.request).headers =
          << << "Authorization", << "k" >> >>,
             << "Authorization", << "p" >> >>,
             << "X-A", << "1" >> >> >>

----------------------------------------------------------------------------
(* Properties of the Signature Verifier *)

Verified == input.fn = "validate_signature" /\ output.done
\* the header with one leading `sha256=` removed, if it has one
StripOptionalPrefix(sg) ==
    IF Len(sg) >= Len(Sha256Prefix) /\ SubSeq(sg, 1, Len(Sha256Prefix)) = Sha256Prefix
    THEN SubSeq(sg, Len(Sha256Prefix) + 1, Len(sg))
    ELSE sg
\* s is hex: an even number of hex digits of either case
IsHex(s) == Len(s) % 2 = 0 /\ \A i \in 1..Len(s) : HexVal(s[i]) >= 0
\* the length in bytes of a tag
TagLen == Len(hmac_sha256(input.key, input.body))

\* C15: verify(S, B, sign(S, B)) is true, with the prefix and without;
\* verify(S, B, sign(S, B')) is false for every B' other than B; and a header
\* that, its optional prefix stripped, is not hex or does not decode to the
\* length of a tag, is refused.
C15_SignatureVerification ==
    Verified =>
        /\ (\E pre \in BOOLEAN : input.signature = sign(input.key, input.body, pre))
              => output.value = TRUE
        /\ (\E pre \in BOOLEAN, b \in VerifierBodies :
                b # input.body /\ input.signature = sign(input.key, b, pre))
              => output.value = FALSE
        /\ (\/ ~IsHex(StripOptionalPrefix(input.signature))
            \/ Len(StripOptionalPrefix(input.signature)) # 2 * TagLen)
              => output.value = FALSE

\* What validate_signature does with the prefix: it accepts exactly the
\* headers that, every leading `sha256=` removed, are the hex of the tag of
\* the body under the secret, in either case of the hex digits.
VerifierAcceptsExactlyTheTag ==
    Verified =>
        (output.value = TRUE <=>
            \E n \in 0..2 :
                LET rest == SubSeq(input.signature, n * Len(Sha256Prefix) + 1,
                                   Len(input.signature))
                IN  /\ Len(input.signature) = n * Len(Sha256Prefix) + 2 * TagLen
                    /\ \A k \in 1..n :
                          SubSeq(input.signature, (k - 1) * Len(Sha256Prefix) + 1,
                                 k * Len(Sha256Prefix)) = Sha256Prefix
                    /\ IsHex(rest)
                    /\ \A i \in 1..TagLen :
                          16 * HexVal(rest[2 * i - 1]) + HexVal(rest[2 * i])
                            = hmac_sha256(input.key, input.body)[i])

====
